---------------------------- MODULE Spec2Model ----------------------------
(***************************************************************************)
(* Model of the OTMISC topic-modelling tool:                               *)
(*   - src/src/preprocessor.py : the registry of text transforms, the      *)
(*     planner (validation + partition), the per-document executor and     *)
(*     the pool dispatcher behind preprocessor.run;                        *)
(*   - src/src/top2vec_runner.py : the entry of top2vec_runner.run.        *)
(*                                                                         *)
(* A Python str is a sequence of one-character strings; Python values are  *)
(* tagged records [kind, v] so that a str, a list of tokens, None and a    *)
(* raised exception stay distinguishable.                                  *)
(***************************************************************************)
EXTENDS Integers, Sequences, FiniteSets, TLC

VARIABLES
    pc,               \* position of the caller inside preprocessor.run
    data,             \* run's argument data
    prep_functions,   \* run's argument prep_functions (a list value or None)
    str_funcs,        \* run's local str_funcs (tuple of names)
    tokenized_funcs,  \* run's local tokenized_funcs (tuple of names)
    pool,             \* processes of the multiprocessing.Pool, 0 = none made
    taskqueue,        \* chunk numbers not yet taken by a worker
    worker,           \* worker -> chunk number it is executing (0 = idle)
    mapresult,        \* the MapResult of pool.map
    applied,          \* document index -> names called on it, in call order
    attempts,         \* document index -> number of times it was executed
    finished,         \* chunk numbers in the order their results arrived
    result,           \* value returned by run (Unset before)
    error,            \* exception raised out of run (Unset before)
    stdout,           \* tags of the lines printed by run
    text,             \* input of a transform applied on its own
    out,              \* its output
    op,               \* which transform was applied
    t2v               \* state of one call of top2vec_runner.run

vars == <<pc, data, prep_functions, str_funcs, tokenized_funcs, pool, taskqueue,
          worker, mapresult, applied, attempts, finished, result, error,
          stdout, text, out, op, t2v>>

prepVars == <<pc, data, prep_functions, str_funcs, tokenized_funcs, pool,
              taskqueue, worker, mapresult, applied, attempts, finished,
              result, error, stdout>>

textVars == <<text, out, op>>

(***************************************************************************)
(* Bounds of the model.                                                    *)
(***************************************************************************)
MaxDocs == 2      \* longest data list passed to run
MaxPlan == 3      \* longest prep_functions list passed to run
CpuCount == 2     \* multiprocessing.cpu_count() of the machine
MaxLen == 4       \* longest text a transform is applied to on its own

(***************************************************************************)
(* Python values.                                                          *)
(***************************************************************************)
Str(cs) == [kind |-> "str", v |-> cs]
List(xs) == [kind |-> "list", v |-> xs]
None == [kind |-> "none", v |-> <<>>]
Raise(type) == [kind |-> "raise", v |-> <<type>>]
Unset == [kind |-> "unset", v |-> <<>>]

IsStr(x) == x.kind = "str"
IsList(x) == x.kind = "list"
IsRaise(x) == x.kind = "raise"

Min(S) == CHOOSE x \in S : \A y \in S : x <= y

(***************************************************************************)
(* Characters.                                                             *)
(***************************************************************************)
LowerLetters ==
    {"a","b","c","d","e","f","g","h","i","j","k","l","m",
     "n","o","p","q","r","s","t","u","v","w","x","y","z"}

UpperLetters ==
    {"A","B","C","D","E","F","G","H","I","J","K","L","M",
     "N","O","P","Q","R","S","T","U","V","W","X","Y","Z"}

UpperSeq == <<"A","B","C","D","E","F","G","H","I","J","K","L","M",
              "N","O","P","Q","R","S","T","U","V","W","X","Y","Z">>

LowerSeq == <<"a","b","c","d","e","f","g","h","i","j","k","l","m",
              "n","o","p","q","r","s","t","u","v","w","x","y","z">>

\* the character class [a-zA-Z]
IsAsciiLetter(c) == c \in LowerLetters \cup UpperLetters

\* the characters str.split() splits on, str.strip() strips and \S excludes
IsWhitespace(c) == c \in {" ", "\t", "\n", "\r", "\f"}

\* code points above 127, as far as the model's texts hold any ("U+0301" is
\* the one character COMBINING ACUTE ACCENT)
IsAscii(c) == c \notin {"é", "É", "U+0301"}

\* str.lower() on one character
LowerChar(c) ==
    IF c \in UpperLetters
    THEN LowerSeq[CHOOSE i \in 1..26 : UpperSeq[i] = c]
    ELSE IF c = "É" THEN "é" ELSE c

RECURSIVE Concat(_)
Concat(ss) == IF ss = <<>> THEN <<>> ELSE Head(ss) \o Concat(Tail(ss))

\* sep.join(words)
RECURSIVE Join(_, _)
Join(sep, words) ==
    IF words = <<>> THEN <<>>
    ELSE IF Len(words) = 1 THEN words[1]
    ELSE words[1] \o sep \o Join(sep, Tail(words))

\* str.strip()
Strip(s) ==
    LET keep == {i \in 1..Len(s) : ~IsWhitespace(s[i])}
    IN  IF keep = {} THEN <<>>
        ELSE SubSeq(s, Min(keep), CHOOSE j \in keep : \A k \in keep : k <= j)

\* membership of a character in a regular-expression class
InClass(class, c) ==
    CASE class = "[a-zA-Z]" -> IsAsciiLetter(c)
      [] class = "\\S" -> ~IsWhitespace(c)

\* last index of the run of characters of the class that starts at i
\* (i - 1 when s[i] is not of the class)
RunEnd(class, s, i) ==
    LET stops == {j \in i..Len(s) : ~InClass(class, s[j])}
    IN  IF stops = {} THEN Len(s) ELSE Min(stops) - 1

\* str.split() with no argument: the maximal runs of non-whitespace
RECURSIVE SplitFrom(_, _)
SplitFrom(s, i) ==
    IF i > Len(s) THEN <<>>
    ELSE IF IsWhitespace(s[i]) THEN SplitFrom(s, i + 1)
    ELSE LET e == RunEnd("\\S", s, i)
         IN  <<SubSeq(s, i, e)>> \o SplitFrom(s, e + 1)

Split(s) == SplitFrom(s, 1)

\* does the literal lit occur in s at index i
LitAt(lit, s, i) ==
    /\ i + Len(lit) - 1 <= Len(s)
    /\ \A k \in 1..Len(lit) : s[i + k - 1] = lit[k]

StartsWith(s, prefix) == LitAt(prefix, s, 1)

Contains(s, sub) == \E i \in 1..(Len(s) + 1) : LitAt(sub, s, i)


(***************************************************************************)
(* Regular expressions of the module, named by their pattern text.         *)
(* MatchEnd is the index of the last character of the match of pat that    *)
(* starts at index i of s, or 0 when pat does not match there.  Every      *)
(* pattern of the module matches at least one character.                   *)
(***************************************************************************)
\* literal lit followed by at least least characters of \S, greedy
LitThenNonSpace(lit, least, s, i) ==
    IF ~LitAt(lit, s, i) THEN 0
    ELSE LET from == i + Len(lit)
             e == IF from > Len(s) THEN from - 1
                  ELSE RunEnd("\\S", s, from)
         IN  IF e - from + 1 >= least THEN e ELSE 0

MatchEnd(pat, s, i) ==
    CASE pat = "[a-zA-Z]+" ->
           IF IsAsciiLetter(s[i]) THEN RunEnd("[a-zA-Z]", s, i) ELSE 0
      [] pat = "https?\\S+" -> LitThenNonSpace(<<"h","t","t","p">>, 1, s, i)
      [] pat = "www\\S+" -> LitThenNonSpace(<<"w","w","w">>, 1, s, i)
      [] pat = "@\\S*" -> LitThenNonSpace(<<"@">>, 0, s, i)
      [] pat = "#\\S*" -> LitThenNonSpace(<<"#">>, 0, s, i)
      [] pat = "[^a-zA-Z]" -> IF IsAsciiLetter(s[i]) THEN 0 ELSE i
      [] pat = "\\\\n" -> IF LitAt(<<"\\", "n">>, s, i) THEN i + 1 ELSE 0
      [] pat = "<.*?>" ->
           IF s[i] # "<" THEN 0
           ELSE LET closes == {j \in (i + 1)..Len(s) :
                                 /\ s[j] = ">"
                                 /\ \A k \in (i + 1)..(j - 1) : s[k] # "\n"}
                IN  IF closes = {} THEN 0 ELSE Min(closes)

\* re.sub(pat, repl, s), scanning from index i; e is MatchEnd(pat, s, i)
RECURSIVE ReSubFrom(_, _, _, _)
RECURSIVE ReSubAt(_, _, _, _, _)
ReSubAt(pat, repl, s, i, e) ==
    IF e >= i THEN repl \o ReSubFrom(pat, repl, s, e + 1)
    ELSE <<s[i]>> \o ReSubFrom(pat, repl, s, i + 1)

ReSubFrom(pat, repl, s, i) ==
    IF i > Len(s) THEN <<>> ELSE ReSubAt(pat, repl, s, i, MatchEnd(pat, s, i))

ReSub(pat, repl, s) == ReSubFrom(pat, repl, s, 1)

\* re.findall(pat, s), scanning from index i; e is MatchEnd(pat, s, i)
RECURSIVE FindAllFrom(_, _, _)
RECURSIVE FindAllAt(_, _, _, _)
FindAllAt(pat, s, i, e) ==
    IF e >= i THEN <<SubSeq(s, i, e)>> \o FindAllFrom(pat, s, e + 1)
    ELSE FindAllFrom(pat, s, i + 1)

FindAllFrom(pat, s, i) ==
    IF i > Len(s) THEN <<>> ELSE FindAllAt(pat, s, i, MatchEnd(pat, s, i))

(***************************************************************************)
(* Module-level objects of preprocessor.py and the library data they hold. *)
(***************************************************************************)
\* words of stopwords.words('english') that the model's texts can hold
english_stop_words ==
    {<<"a">>, <<"i">>, <<"s">>, <<"t">>, <<"t","h","e">>, <<"i","s">>,
     <<"a","r","e">>, <<"t","o">>, <<"a","n","d">>}

\* WordNetLemmatizer.lemmatize(word, pos) on the words the texts can hold
lemmatizer(word, pos) ==
    CASE pos = "n" /\ word = <<"c","a","t","s">> -> <<"c","a","t">>
      [] pos = "n" /\ word = <<"m","e","n">> -> <<"m","a","n">>
      [] pos = "v" /\ word = <<"a","r","e">> -> <<"b","e">>
      [] pos = "v" /\ word = <<"r","a","n">> -> <<"r","u","n">>
      [] pos = "a" /\ word = <<"b","e","s","t">> -> <<"g","o","o","d">>
      [] OTHER -> word

\* a tokenizer that splits on whitespace only
tokenizer_whitespace(s) == Split(s)

\* RegexpTokenizer(r'[a-zA-Z]+').tokenize
tokenizer(s) == FindAllFrom("[a-zA-Z]+", s, 1)

\* contractions.fix on one whitespace-free word
contractions_fix(word) ==
    CASE word = <<"d","o","n","'","t">> -> <<"d","o"," ","n","o","t">>
      [] word = <<"D","o","n","'","t">> -> <<"D","o"," ","n","o","t">>
      [] word = <<"i","t","'","s">> -> <<"i","t"," ","i","s">>
      [] OTHER -> word

\* unicodedata.normalize('NFKD', c) on one character
NFKD(c) ==
    CASE c = "é" -> <<"e", "U+0301">>
      [] c = "É" -> <<"E", "U+0301">>
      [] OTHER -> <<c>>

(***************************************************************************)
(* The transforms: the functions of preprocessor.py, each on a Python      *)
(* value and returning a Python value or the exception it raises.          *)
(***************************************************************************)
__tokenize(s) ==
    IF IsStr(s) THEN List(tokenizer(s.v)) ELSE Raise("TypeError")

__glue(words) ==
    CASE IsList(words) -> Str(Strip(Join(<<" ">>, words.v)))
      [] IsStr(words) ->
           Str(Strip(Join(<<" ">>, [i \in 1..Len(words.v) |-> <<words.v[i]>>])))
      [] OTHER -> Raise("TypeError")

to_lowercase(text_) ==
    IF IsStr(text_) THEN Str([i \in 1..Len(text_.v) |-> LowerChar(text_.v[i])])
    ELSE Raise("AttributeError")

standardize_accented_chars(text_) ==
    IF IsStr(text_)
    THEN Str(SelectSeq(Concat([i \in 1..Len(text_.v) |-> NFKD(text_.v[i])]),
                       IsAscii))
    ELSE Raise("TypeError")

remove_url(text_) ==
    IF IsStr(text_)
    THEN Str(ReSub("www\\S+", <<>>, ReSub("https?\\S+", <<>>, text_.v)))
    ELSE Raise("TypeError")

expand_contractions(text_) ==
    IF IsStr(text_)
    THEN Str(Join(<<" ">>, [i \in 1..Len(Split(text_.v)) |->
                              contractions_fix(Split(text_.v)[i])]))
    ELSE Raise("AttributeError")

remove_mentions(text_) ==
    IF IsStr(text_) THEN Str(ReSub("@\\S*", <<>>, text_.v))
    ELSE Raise("TypeError")

remove_hashtags(text_) ==
    IF IsStr(text_) THEN Str(ReSub("#\\S*", <<>>, text_.v))
    ELSE Raise("TypeError")

keep_only_alphabet(text_) ==
    IF IsStr(text_) THEN Str(ReSub("[^a-zA-Z]", <<" ">>, text_.v))
    ELSE Raise("TypeError")

remove_new_lines(text_) ==
    IF IsStr(text_) THEN Str(ReSub("\\\\n", <<" ">>, text_.v))
    ELSE Raise("TypeError")

remove_extra_spaces(text_) ==
    IF IsStr(text_) THEN Str(Join(<<" ">>, Split(text_.v)))
    ELSE Raise("AttributeError")

remove_html_tags(text_) ==
    IF IsStr(text_) THEN Str(ReSub("<.*?>", <<" ">>, text_.v))
    ELSE Raise("TypeError")

\* the items a for-loop or filter() draws from a value: the elements of a
\* list, the one-character strings of a str
Items(x) == IF IsStr(x) THEN [i \in 1..Len(x.v) |-> <<x.v[i]>>] ELSE x.v

IsIterable(x) == IsStr(x) \/ IsList(x)

NotStopWord(word) == word \notin english_stop_words

remove_english_stop_words(tokenized_text) ==
    IF IsIterable(tokenized_text)
    THEN List(SelectSeq(Items(tokenized_text), NotStopWord))
    ELSE Raise("TypeError")

lemmatize(tokenized_text, pos) ==
    IF IsIterable(tokenized_text)
    THEN List([i \in 1..Len(Items(tokenized_text)) |->
                  lemmatizer(Items(tokenized_text)[i], pos)])
    ELSE Raise("TypeError")

lemmatize_verb(tokenized_text) == lemmatize(tokenized_text, "v")

lemmatize_noun(tokenized_text) == lemmatize(tokenized_text, "n")

lemmatize_adjective(tokenized_text) == lemmatize(tokenized_text, "a")


(***************************************************************************)
(* The names of the module.                                                *)
(***************************************************************************)
\* globals() of preprocessor.py once the module is loaded: the names bound
\* at module level, in binding order, each with the type of its value
\* (the modules and typing names imported at the top are left out: like the
\* other non-functions listed here they are not of FunctionType)
globals ==
    <<<<"reduce", "builtin_function_or_method">>,
      <<"partial", "type">>,
      <<"contractions", "module">>,
      <<"english_stop_words", "set">>,
      <<"lemmatizer", "WordNetLemmatizer">>,
      <<"tokenizer", "RegexpTokenizer">>,
      <<"list_available_prep_functions", "function">>,
      <<"__split_iterable_on_condition", "function">>,
      <<"__is_tokenized_method", "function">>,
      <<"__tokenize", "function">>,
      <<"__glue", "function">>,
      <<"to_lowercase", "function">>,
      <<"standardize_accented_chars", "function">>,
      <<"remove_url", "function">>,
      <<"expand_contractions", "function">>,
      <<"remove_mentions", "function">>,
      <<"remove_hashtags", "function">>,
      <<"keep_only_alphabet", "function">>,
      <<"remove_new_lines", "function">>,
      <<"remove_extra_spaces", "function">>,
      <<"remove_html_tags", "function">>,
      <<"remove_english_stop_words", "function">>,
      <<"lemmatize", "function">>,
      <<"lemmatize_verb", "function">>,
      <<"lemmatize_noun", "function">>,
      <<"lemmatize_adjective", "function">>,
      <<"TestUtils", "type">>,
      <<"__instance_preprocess", "function">>,
      <<"__preprocess", "function">>,
      <<"__check_functions_validity", "function">>,
      <<"run", "function">>,
      <<"__test_tweets", "function">>,
      <<"__test_yahoo_answers", "function">>>>

\* the characters of a name (also of the two misspelt names callers pass)
Spelling(name) ==
    CASE name = "reduce" ->
           <<"r","e","d","u","c","e">>
      [] name = "partial" ->
           <<"p","a","r","t","i","a","l">>
      [] name = "contractions" ->
           <<"c","o","n","t","r","a","c","t","i","o","n","s">>
      [] name = "english_stop_words" ->
           <<"e","n","g","l","i","s","h","_","s","t","o","p","_","w","o","r","d","s">>
      [] name = "lemmatizer" ->
           <<"l","e","m","m","a","t","i","z","e","r">>
      [] name = "tokenizer" ->
           <<"t","o","k","e","n","i","z","e","r">>
      [] name = "list_available_prep_functions" ->
           <<"l","i","s","t","_","a","v","a","i","l","a","b","l","e","_","p","r","e","p","_","f","u","n","c","t","i","o","n","s">>
      [] name = "__split_iterable_on_condition" ->
           <<"_","_","s","p","l","i","t","_","i","t","e","r","a","b","l","e","_","o","n","_","c","o","n","d","i","t","i","o","n">>
      [] name = "__is_tokenized_method" ->
           <<"_","_","i","s","_","t","o","k","e","n","i","z","e","d","_","m","e","t","h","o","d">>
      [] name = "__tokenize" ->
           <<"_","_","t","o","k","e","n","i","z","e">>
      [] name = "__glue" ->
           <<"_","_","g","l","u","e">>
      [] name = "to_lowercase" ->
           <<"t","o","_","l","o","w","e","r","c","a","s","e">>
      [] name = "standardize_accented_chars" ->
           <<"s","t","a","n","d","a","r","d","i","z","e","_","a","c","c","e","n","t","e","d","_","c","h","a","r","s">>
      [] name = "remove_url" ->
           <<"r","e","m","o","v","e","_","u","r","l">>
      [] name = "expand_contractions" ->
           <<"e","x","p","a","n","d","_","c","o","n","t","r","a","c","t","i","o","n","s">>
      [] name = "remove_mentions" ->
           <<"r","e","m","o","v","e","_","m","e","n","t","i","o","n","s">>
      [] name = "remove_hashtags" ->
           <<"r","e","m","o","v","e","_","h","a","s","h","t","a","g","s">>
      [] name = "keep_only_alphabet" ->
           <<"k","e","e","p","_","o","n","l","y","_","a","l","p","h","a","b","e","t">>
      [] name = "remove_new_lines" ->
           <<"r","e","m","o","v","e","_","n","e","w","_","l","i","n","e","s">>
      [] name = "remove_extra_spaces" ->
           <<"r","e","m","o","v","e","_","e","x","t","r","a","_","s","p","a","c","e","s">>
      [] name = "remove_html_tags" ->
           <<"r","e","m","o","v","e","_","h","t","m","l","_","t","a","g","s">>
      [] name = "remove_english_stop_words" ->
           <<"r","e","m","o","v","e","_","e","n","g","l","i","s","h","_","s","t","o","p","_","w","o","r","d","s">>
      [] name = "lemmatize" ->
           <<"l","e","m","m","a","t","i","z","e">>
      [] name = "lemmatize_verb" ->
           <<"l","e","m","m","a","t","i","z","e","_","v","e","r","b">>
      [] name = "lemmatize_noun" ->
           <<"l","e","m","m","a","t","i","z","e","_","n","o","u","n">>
      [] name = "lemmatize_adjective" ->
           <<"l","e","m","m","a","t","i","z","e","_","a","d","j","e","c","t","i","v","e">>
      [] name = "TestUtils" ->
           <<"T","e","s","t","U","t","i","l","s">>
      [] name = "__instance_preprocess" ->
           <<"_","_","i","n","s","t","a","n","c","e","_","p","r","e","p","r","o","c","e","s","s">>
      [] name = "__preprocess" ->
           <<"_","_","p","r","e","p","r","o","c","e","s","s">>
      [] name = "__check_functions_validity" ->
           <<"_","_","c","h","e","c","k","_","f","u","n","c","t","i","o","n","s","_","v","a","l","i","d","i","t","y">>
      [] name = "run" ->
           <<"r","u","n">>
      [] name = "__test_tweets" ->
           <<"_","_","t","e","s","t","_","t","w","e","e","t","s">>
      [] name = "__test_yahoo_answers" ->
           <<"_","_","t","e","s","t","_","y","a","h","o","o","_","a","n","s","w","e","r","s">>
      [] name = "lowercase_typo" ->
           <<"l","o","w","e","r","c","a","s","e","_","t","y","p","o">>
      [] name = "another_typo" ->
           <<"a","n","o","t","h","e","r","_","t","y","p","o">>

\* func_name.startswith('__')
IsPrivate(func_name) == StartsWith(Spelling(func_name), <<"_","_">>)

DefaultExclude == {"run", "list_available_prep_functions"}

list_available_prep_functions(exclude) ==
    LET IsFunction(g) == g[2] = "function"
        NotExcluded(func) == func \notin exclude
        NotPrivate(func) == ~IsPrivate(func)
        vars0 == SelectSeq(globals, IsFunction)
        available0 == [i \in 1..Len(vars0) |-> vars0[i][1]]
        available1 == SelectSeq(available0, NotExcluded)
    IN  SelectSeq(available1, NotPrivate)

\* a classification that looks at the lemmatize prefix only
is_tokenized_method_prefix_only(func_name) ==
    StartsWith(Spelling(func_name), Spelling("lemmatize"))

__is_tokenized_method(func_name) ==
    \/ StartsWith(Spelling(func_name), Spelling("lemmatize"))
    \/ Contains(Spelling(func_name),
                <<"s","t","o","p","_","w","o","r","d","s">>)

\* condition_callable(item) for the callables run passes by name
Holds(condition_callable, item) ==
    CASE condition_callable = "__is_tokenized_method" ->
           __is_tokenized_method(item)

Reverse(seq) == [i \in 1..Len(seq) |-> seq[Len(seq) + 1 - i]]

\* a split that inserts at the front of trues and falses
split_iterable_prepending(condition_callable, iterable) ==
    LET IsTrue(item) == Holds(condition_callable, item)
        IsFalse(item) == ~Holds(condition_callable, item)
    IN  <<Reverse(SelectSeq(iterable, IsTrue)),
          Reverse(SelectSeq(iterable, IsFalse))>>

\* <<trues, falses>>
__split_iterable_on_condition(condition_callable, iterable) ==
    LET IsTrue(item) == Holds(condition_callable, item)
        IsFalse(item) == ~Holds(condition_callable, item)
    IN  <<SelectSeq(iterable, IsTrue), SelectSeq(iterable, IsFalse)>>


(***************************************************************************)
(* The per-document executor.                                              *)
(***************************************************************************)
\* globals()[func](res)
Call(func, res) ==
    CASE func = "__tokenize" -> __tokenize(res)
      [] func = "__glue" -> __glue(res)
      [] func = "to_lowercase" -> to_lowercase(res)
      [] func = "standardize_accented_chars" -> standardize_accented_chars(res)
      [] func = "remove_url" -> remove_url(res)
      [] func = "expand_contractions" -> expand_contractions(res)
      [] func = "remove_mentions" -> remove_mentions(res)
      [] func = "remove_hashtags" -> remove_hashtags(res)
      [] func = "keep_only_alphabet" -> keep_only_alphabet(res)
      [] func = "remove_new_lines" -> remove_new_lines(res)
      [] func = "remove_extra_spaces" -> remove_extra_spaces(res)
      [] func = "remove_html_tags" -> remove_html_tags(res)
      [] func = "remove_english_stop_words" -> remove_english_stop_words(res)
      [] func = "lemmatize" -> lemmatize(res, "n")
      [] func = "lemmatize_verb" -> lemmatize_verb(res)
      [] func = "lemmatize_noun" -> lemmatize_noun(res)
      [] func = "lemmatize_adjective" -> lemmatize_adjective(res)
      [] func \in {globals[i][1] : i \in 1..Len(globals)} -> Raise("TypeError")
      [] OTHER -> Raise("KeyError")

\* reduce(lambda res, func: globals()[func](res), methods, initial), with the
\* names called so far; an exception raised by a call ends the reduction
RECURSIVE Reduce(_, _, _)
RECURSIVE ReduceStep(_, _, _)
\* r is what the call of the first of methods returned or raised
ReduceStep(methods, r, calls) ==
    IF IsRaise(r) THEN [val |-> r, calls |-> Append(calls, Head(methods))]
    ELSE Reduce(Tail(methods), r, Append(calls, Head(methods)))

Reduce(methods, res, calls) ==
    IF methods = <<>> THEN [val |-> res, calls |-> calls]
    ELSE ReduceStep(methods, Call(Head(methods), res), calls)

\* the second reduce of __instance_preprocess, after the first gave first
TokenizedPart(first, tokenized_methods) ==
    IF IsRaise(first.val) \/ tokenized_methods = <<>> THEN first
    ELSE Reduce(tokenized_methods, first.val, first.calls)

\* an executor that runs the tokenized methods before the string methods
instance_preprocess_tokenized_first(a_str, str_methods, tokenized_methods) ==
    TokenizedPart(Reduce(tokenized_methods, a_str, <<>>), str_methods)

\* [val: the str returned or the exception raised, calls: the names called]
__instance_preprocess(a_str, str_methods, tokenized_methods) ==
    TokenizedPart(Reduce(str_methods, a_str, <<>>), tokenized_methods)

(***************************************************************************)
(* multiprocessing.Pool.map, as __preprocess uses it.                      *)
(***************************************************************************)
\* chunksize of Pool.map for an iterable of n items on a pool of processes
ChunkSize(n, processes) ==
    IF n = 0 THEN 0
    ELSE (n \div (processes * 4)) + (IF n % (processes * 4) # 0 THEN 1 ELSE 0)

NumChunks(n, chunksize) ==
    IF chunksize <= 0 THEN 0
    ELSE (n \div chunksize) + (IF n % chunksize # 0 THEN 1 ELSE 0)

\* indices of data that chunk c (1-based) holds
ChunkIndices(c, n, chunksize) ==
    {i \in 1..n : (c - 1) * chunksize < i /\ i <= c * chunksize}

NoMapResult == [success |-> TRUE, value |-> <<>>, number_left |-> 0]

\* MapResult.__init__
NewMapResult(n, chunksize) ==
    [success |-> TRUE,
     value |-> [i \in 1..n |-> None],
     number_left |-> NumChunks(n, chunksize)]

\* mapstar on one chunk: the documents in order, up to the first that raises
\* (the indices that were executed)
Executed(idx, outcome) ==
    {i \in idx : \A j \in idx : j < i => ~IsRaise(outcome[j].val)}

\* a result collector that fills the list in the order results arrive
MapResultSetByArrival(mr, idx, outcome) ==
    LET failed == {i \in Executed(idx, outcome) : IsRaise(outcome[i].val)}
        arrived == Len(mr.value) - mr.number_left
        slot(i) == arrived + 1 + Cardinality({j \in idx : j < i})
    IN  IF failed = {} /\ mr.success
        THEN [mr EXCEPT !.number_left = @ - 1,
                        !.value = [k \in DOMAIN @ |->
                                     IF \E i \in idx : slot(i) = k
                                     THEN outcome[CHOOSE i \in idx : slot(i) = k].val
                                     ELSE @[k]]]
        ELSE IF failed # {} /\ mr.success
        THEN [mr EXCEPT !.number_left = @ - 1,
                        !.success = FALSE,
                        !.value = outcome[Min(failed)].val]
        ELSE [mr EXCEPT !.number_left = @ - 1]

\* a result collector that keeps going when a document fails, leaving None
\* in its place
MapResultSetIsolating(mr, idx, outcome) ==
    [mr EXCEPT !.number_left = @ - 1,
               !.value = [i \in DOMAIN @ |->
                            IF i \in idx /\ i \in Executed(idx, outcome)
                               /\ ~IsRaise(outcome[i].val)
                            THEN outcome[i].val ELSE @[i]]]

\* MapResult._set(c - 1, (success, result)) for the chunk with indices idx
MapResultSet(mr, idx, outcome) ==
    LET failed == {i \in Executed(idx, outcome) : IsRaise(outcome[i].val)}
    IN  IF failed = {} /\ mr.success
        THEN [mr EXCEPT !.number_left = @ - 1,
                        !.value = [i \in DOMAIN @ |->
                                     IF i \in idx THEN outcome[i].val ELSE @[i]]]
        ELSE IF failed # {} /\ mr.success
        THEN [mr EXCEPT !.number_left = @ - 1,
                        !.success = FALSE,
                        !.value = outcome[Min(failed)].val]
        ELSE [mr EXCEPT !.number_left = @ - 1]

(***************************************************************************)
(* Validation.                                                             *)
(***************************************************************************)
ToSet(seq) == {seq[i] : i \in 1..Len(seq)}

ValueError(names) == [kind |-> "raise", v |-> <<"ValueError", names>>]

\* validation that stops at the first name it cannot resolve
check_functions_validity_first_only(functions) ==
    LET all_funcs == ToSet(list_available_prep_functions(DefaultExclude))
        bad == {i \in 1..Len(functions) : functions[i] \notin all_funcs}
    IN  IF bad # {} THEN ValueError({functions[Min(bad)]}) ELSE None

\* None when every name is available, else the ValueError raised
__check_functions_validity(functions) ==
    LET all_funcs == ToSet(list_available_prep_functions(DefaultExclude))
    IN  IF ~(ToSet(functions) \subseteq all_funcs)
        THEN ValueError(ToSet(functions) \ all_funcs)
        ELSE None

\* "prep_functions is None" in place of "not prep_functions"
FalsyNoneOnly(x) == x = None

\* not prep_functions
Falsy(x) == x = None \/ (IsList(x) /\ x.v = <<>>)


(***************************************************************************)
(* preprocessor.run as a state machine: the call up to the dispatch of the *)
(* map, the pool's workers, the return of the map.                         *)
(***************************************************************************)
\* the documents callers pass: two texts and a missing value
DocUniverse ==
    {Str(<<"A"," ","m","e","n">>),
     Str(<<"I","s"," ","2">>),
     None}

\* the names callers pass: available transforms of both domains, a private
\* helper and two misspelt names
FnUniverse ==
    {"to_lowercase", "keep_only_alphabet", "remove_english_stop_words",
     "lemmatize_noun", "__glue", "lowercase_typo", "another_typo"}

SeqsUpTo(S, n) == UNION {[1..k -> S] : k \in 0..n}

DataInputs == {List(d) : d \in SeqsUpTo(DocUniverse, MaxDocs)}

PlanInputs == {None} \cup {List(f) : f \in SeqsUpTo(FnUniverse, MaxPlan)}

Workers == 1..CpuCount

InitPrep ==
    /\ pc = "idle"
    /\ data = Unset
    /\ prep_functions = Unset
    /\ str_funcs = <<>>
    /\ tokenized_funcs = <<>>
    /\ pool = 0
    /\ taskqueue = <<>>
    /\ worker = <<>>
    /\ mapresult = NoMapResult
    /\ applied = <<>>
    /\ attempts = <<>>
    /\ finished = <<>>
    /\ result = Unset
    /\ error = Unset
    /\ stdout = <<>>

\* __preprocess up to the moment pool.map has queued its chunks
Dispatch(d, strs, toks) ==
    LET n == Len(d.v)
        chunksize == ChunkSize(n, CpuCount)
    IN  /\ pool' = CpuCount
        /\ worker' = [w \in Workers |-> 0]
        /\ taskqueue' = [c \in 1..NumChunks(n, chunksize) |-> c]
        /\ mapresult' = NewMapResult(n, chunksize)
        /\ applied' = [i \in 1..n |-> <<>>]
        /\ attempts' = [i \in 1..n |-> 0]
        /\ finished' = <<>>
        /\ stdout' = <<"INFO available", "INFO starting", "INFO str methods">>
                     \o (IF toks # <<>> THEN <<"INFO tokenized methods">>
                         ELSE <<>>)

\* a run that validates the names only after the pool has been given the map
RunCallValidatingLate(d, f) ==
    /\ data' = d
    /\ prep_functions' = f
    /\ IF Falsy(f)
       THEN /\ stdout' = <<"WARN skipped">>
            /\ pc' = "returned"
            /\ result' = d
            /\ UNCHANGED <<str_funcs, tokenized_funcs, pool, taskqueue, worker,
                           mapresult, applied, attempts, finished, error>>
       ELSE /\ tokenized_funcs' = <<>>
            /\ str_funcs' = <<>>
            /\ Dispatch(d, <<>>, <<>>)
            /\ IF IsRaise(__check_functions_validity(f.v))
               THEN /\ pc' = "raised"
                    /\ error' = __check_functions_validity(f.v)
                    /\ result' = result
               ELSE /\ pc' = "mapping"
                    /\ UNCHANGED <<result, error>>

\* run(data, prep_functions) from its entry to the first point where it
\* returns, raises or waits for the pool
RunCall(d, f) ==
    /\ data' = d
    /\ prep_functions' = f
    /\ IF Falsy(f)
       THEN /\ stdout' = <<"WARN skipped">>
            /\ pc' = "returned"
            /\ result' = d
            /\ UNCHANGED <<str_funcs, tokenized_funcs, pool, taskqueue, worker,
                           mapresult, applied, attempts, finished, error>>
       ELSE LET check == __check_functions_validity(f.v)
            IN  IF IsRaise(check)
                THEN /\ stdout' = <<"ERROR given">>
                     /\ pc' = "raised"
                     /\ error' = check
                     /\ UNCHANGED <<str_funcs, tokenized_funcs, pool, taskqueue,
                                    worker, mapresult, applied, attempts,
                                    finished, result>>
                ELSE LET split == __split_iterable_on_condition(
                                      "__is_tokenized_method", f.v)
                         toks == IF split[1] # <<>>
                                 THEN <<"__tokenize">> \o split[1] \o <<"__glue">>
                                 ELSE split[1]
                     IN  /\ tokenized_funcs' = toks
                         /\ str_funcs' = split[2]
                         /\ Dispatch(d, split[2], toks)
                         /\ pc' = "mapping"
                         /\ UNCHANGED <<result, error>>

Run ==
    /\ pc = "idle"
    /\ \E d \in DataInputs, f \in PlanInputs : RunCall(d, f)
    /\ UNCHANGED <<text, out, op, t2v>>

\* a pool worker takes the next chunk off the task queue
WorkerTake(w) ==
    /\ pc = "mapping"
    /\ worker[w] = 0
    /\ taskqueue # <<>>
    /\ worker' = [worker EXCEPT ![w] = Head(taskqueue)]
    /\ taskqueue' = Tail(taskqueue)
    /\ UNCHANGED <<pc, data, prep_functions, str_funcs, tokenized_funcs, pool,
                   mapresult, applied, attempts, finished, result, error,
                   stdout, text, out, op, t2v>>

\* the effects of executing the chunk with indices idx, outcome[i] being
\* what __instance_preprocess gives for document i
Deliver(idx, outcome) ==
    /\ applied' = [i \in DOMAIN applied |->
                     IF i \in Executed(idx, outcome)
                     THEN applied[i] \o outcome[i].calls ELSE applied[i]]
    /\ attempts' = [i \in DOMAIN attempts |->
                      IF i \in Executed(idx, outcome)
                      THEN attempts[i] + 1 ELSE attempts[i]]
    /\ mapresult' = MapResultSet(mapresult, idx, outcome)

\* mapstar on the chunk with indices idx: the partial of
\* __instance_preprocess on each of its documents
Execute(idx) ==
    Deliver(idx, [i \in idx |->
                    __instance_preprocess(data.v[i], str_funcs,
                                          tokenized_funcs)])

\* a pool worker executes its chunk and the result reaches the MapResult
WorkerFinish(w) ==
    /\ pc = "mapping"
    /\ worker[w] # 0
    /\ Execute(ChunkIndices(worker[w], Len(data.v),
                            ChunkSize(Len(data.v), pool)))
    /\ finished' = Append(finished, worker[w])
    /\ worker' = [worker EXCEPT ![w] = 0]
    /\ UNCHANGED <<pc, data, prep_functions, str_funcs, tokenized_funcs, pool,
                   taskqueue, result, error, stdout, text, out, op, t2v>>

\* pool.map returns once every chunk has reported: the list of results, or
\* the first exception a chunk reported, which run lets through
MapReturn ==
    /\ pc = "mapping"
    /\ mapresult.number_left = 0
    /\ IF mapresult.success
       THEN /\ pc' = "returned"
            /\ result' = List(mapresult.value)
            /\ stdout' = Append(stdout, "INFO completed")
            /\ error' = error
       ELSE /\ pc' = "raised"
            /\ error' = mapresult.value
            /\ UNCHANGED <<result, stdout>>
    /\ UNCHANGED <<data, prep_functions, str_funcs, tokenized_funcs, pool,
                   taskqueue, worker, mapresult, applied, attempts, finished,
                   text, out, op, t2v>>

InitText ==
    /\ text = Unset
    /\ out = Unset
    /\ op = "none"

InitT2V == t2v = Unset

Init == InitPrep /\ InitText /\ InitT2V

Next ==
    \/ Run
    \/ \E w \in Workers : WorkerTake(w)
    \/ \E w \in Workers : WorkerFinish(w)
    \/ MapReturn

Spec == Init /\ [][Next]_vars


(***************************************************************************)
(* Properties of preprocessor.run.                                         *)
(***************************************************************************)
\* the call has been made with a list that holds at least one name
CalledWithNames ==
    pc # "idle" /\ IsList(prep_functions) /\ prep_functions.v # <<>>

Registry == ToSet(list_available_prep_functions(DefaultExclude))

Listed == ToSet(prep_functions.v)

RaisedValueError ==
    pc = "raised" /\ IsRaise(error) /\ error.v[1] = "ValueError"

\* the k-th smallest element of a set of positions
Kth(P, k) == CHOOSE i \in P : Cardinality({j \in P : j <= i}) = k

\* the subsequence of seq at the positions P, in their order
SubAt(seq, P) == [k \in 1..Cardinality(P) |-> seq[Kth(P, k)]]

\* the positions of the list names whose name is token-domain
TokenPositions(names) ==
    {i \in 1..Len(names) : __is_tokenized_method(names[i])}

\* the names of the given domain, in the order of the list
TokenNames(names) == SubAt(names, TokenPositions(names))

StringNames(names) ==
    SubAt(names, (1..Len(names)) \ TokenPositions(names))

IsPrefix(a, b) == Len(a) <= Len(b) /\ \A i \in 1..Len(a) : a[i] = b[i]

\* C1: a non-empty list holding a name outside the registry makes run fail
\* with a ValueError whose names are exactly the listed names that are not
\* in the registry: every one of them, and no registered name.
C1_AllUnknownNamesReported ==
    (CalledWithNames /\ ~(Listed \subseteq Registry)) =>
        /\ RaisedValueError
        /\ error.v[2] \subseteq Listed
        /\ \A n \in Listed : n \in error.v[2] <=> n \notin Registry

C1_Witness ==
    /\ RaisedValueError
    /\ prep_functions.v = <<"lowercase_typo", "another_typo", "to_lowercase">>
    /\ error.v[2] = {"lowercase_typo", "another_typo"}

\* C2: when run fails on an unknown name, nothing has been processed: no
\* pool exists, no chunk is queued or taken, no transform has been called on
\* any document and nothing is returned.
C2_ValidationFailsBeforeProcessing ==
    RaisedValueError =>
        /\ pool = 0
        /\ taskqueue = <<>>
        /\ worker = <<>>
        /\ mapresult = NoMapResult
        /\ applied = <<>>
        /\ attempts = <<>>
        /\ finished = <<>>
        /\ result = Unset

C2_Witness ==
    /\ RaisedValueError
    /\ Len(data.v) = 2
    /\ prep_functions.v = <<"to_lowercase", "lowercase_typo">>

\* C3: with a valid non-empty plan, what run returns has the length of data
\* and its i-th element is what the executor gives for data[i], whatever the
\* order in which the workers finished.
C3_ResultsInInputOrder ==
    (CalledWithNames /\ pc = "returned") =>
        /\ IsList(result)
        /\ Len(result.v) = Len(data.v)
        /\ \A i \in 1..Len(data.v) :
             result.v[i] = __instance_preprocess(data.v[i], str_funcs,
                                                 tokenized_funcs).val

C3_Witness ==
    /\ CalledWithNames
    /\ pc = "returned"
    /\ finished = <<2, 1>>
    /\ prep_functions.v = <<"to_lowercase">>
    /\ data.v[1] = Str(<<"A"," ","m","e","n">>)
    /\ result.v = <<Str(<<"a"," ","m","e","n">>),
                    Str(<<"i","s"," ","2">>)>>

\* C4: with an empty list or None, run returns data itself and does nothing
\* else: no error, no pool, no chunk, no call of any transform.
C4_EmptyPlanPassesThrough ==
    (pc # "idle" /\ (prep_functions = None \/ prep_functions = List(<<>>))) =>
        /\ pc = "returned"
        /\ result = data
        /\ error = Unset
        /\ pool = 0
        /\ taskqueue = <<>>
        /\ applied = <<>>
        /\ attempts = <<>>

C4_Witness ==
    /\ pc = "returned"
    /\ prep_functions = List(<<>>)
    /\ Len(data.v) = 2
    /\ result = data

\* C5: the planner puts every occurrence of a name into exactly one of the
\* two sequences: the names the naming predicate classifies as token-domain
\* into tokenized_funcs (between the tokenize and glue steps), the others
\* into str_funcs, each keeping the order of the caller's list.
C5_PartitionKeepsOrder ==
    (CalledWithNames /\ pool # 0) =>
        LET tokens == TokenNames(prep_functions.v)
        IN  /\ str_funcs = StringNames(prep_functions.v)
            /\ IF tokens = <<>> THEN tokenized_funcs = <<>>
               ELSE tokenized_funcs = <<"__tokenize">> \o tokens \o <<"__glue">>
            /\ Len(str_funcs) + Len(tokens) = Len(prep_functions.v)

C5_Witness ==
    /\ pool # 0
    /\ prep_functions.v =
         <<"lemmatize_noun", "to_lowercase", "remove_english_stop_words">>
    /\ str_funcs = <<"to_lowercase">>
    /\ tokenized_funcs = <<"__tokenize", "lemmatize_noun",
                           "remove_english_stop_words", "__glue">>

\* the steps C6 expects on one document
ExpectedSteps(names) ==
    StringNames(names)
    \o (IF TokenPositions(names) = {} THEN <<>>
        ELSE <<"__tokenize">> \o TokenNames(names) \o <<"__glue">>)

\* C6: the calls made on a document are the string-domain names in their
\* listed order and then, only when a token-domain name is listed, tokenize,
\* the token-domain names in their listed order and glue; a document that
\* went through without raising has had exactly these calls.
C6_StringStepsThenTokenSteps ==
    (CalledWithNames /\ pool # 0) =>
        LET expected == ExpectedSteps(prep_functions.v)
        IN  \A i \in DOMAIN applied :
                /\ IsPrefix(applied[i], expected)
                /\ (pc = "returned" => applied[i] = expected)

C6_Witness ==
    /\ pc = "returned"
    /\ prep_functions.v = <<"remove_english_stop_words", "to_lowercase">>
    /\ Len(data.v) = 1
    /\ applied[1] = <<"to_lowercase", "__tokenize",
                      "remove_english_stop_words", "__glue">>

\* what the transform chain raises on the documents on which it raises
Faults ==
    {r \in {__instance_preprocess(data.v[i], str_funcs, tokenized_funcs).val :
              i \in 1..Len(data.v)} : IsRaise(r)}

\* C7: when the chain raises on some document of the batch, run does not
\* return: it ends by raising the exception of a failing document, with no
\* result, full or partial; no document is executed a second time.
C7_FaultFailsWholeBatch ==
    (CalledWithNames /\ pool # 0) =>
        /\ \A i \in DOMAIN attempts : attempts[i] <= 1
        /\ (pc = "returned" => Faults = {})
        /\ (pc # "returned" => result = Unset)
        /\ (pc = "raised" => error \in Faults)

C7_Witness ==
    /\ pc = "raised"
    /\ pool # 0
    /\ data.v = <<Str(<<"A"," ","m","e","n">>), None>>
    /\ attempts = <<1, 1>>
    /\ error = Raise("AttributeError")
    /\ result = Unset


(***************************************************************************)
(* The transforms on their own: a text of at most MaxLen characters, then  *)
(* one transform (or tokenize followed by glue) applied to it.             *)
(***************************************************************************)
\* letters of both cases, a digit, a blank, a newline, a backslash and a
\* letter outside ASCII
TextAlphabet == {"n", "Z", "1", " ", "\n", "\\", "é"}

InitTexts ==
    /\ text \in {Str(cs) : cs \in SeqsUpTo(TextAlphabet, MaxLen)}
    /\ out = Unset
    /\ op = "none"
    /\ InitPrep
    /\ InitT2V

ApplyTokenize ==
    /\ op = "none"
    /\ out' = __tokenize(text)
    /\ op' = "__tokenize"
    /\ UNCHANGED <<text, t2v>>
    /\ UNCHANGED prepVars

ApplyGlue ==
    /\ op = "__tokenize"
    /\ out' = __glue(out)
    /\ op' = "__glue"
    /\ UNCHANGED <<text, t2v>>
    /\ UNCHANGED prepVars

ApplyRemoveNewLines ==
    /\ op = "none"
    /\ out' = remove_new_lines(text)
    /\ op' = "remove_new_lines"
    /\ UNCHANGED <<text, t2v>>
    /\ UNCHANGED prepVars

NextText == ApplyTokenize \/ ApplyGlue \/ ApplyRemoveNewLines

SpecText == InitTexts /\ [][NextText]_vars

\* the maximal runs of ASCII letters of s, as pairs <<first, last>>
LetterRuns(s) ==
    {r \in (1..Len(s)) \X (1..Len(s)) :
        /\ r[1] <= r[2]
        /\ \A k \in r[1]..r[2] : IsAsciiLetter(s[k])
        /\ (r[1] = 1 \/ ~IsAsciiLetter(s[r[1] - 1]))
        /\ (r[2] = Len(s) \/ ~IsAsciiLetter(s[r[2] + 1]))}

RunsInOrder(s) ==
    [k \in 1..Cardinality(LetterRuns(s)) |->
        LET r == CHOOSE r \in LetterRuns(s) :
                    Cardinality({q \in LetterRuns(s) : q[1] <= r[1]}) = k
        IN  SubSeq(s, r[1], r[2])]

\* the positions of s that survive tokenize + glue: the letters, and the
\* first separator after a letter when another letter follows later
KeptPositions(s) ==
    {i \in 1..Len(s) :
        \/ IsAsciiLetter(s[i])
        \/ /\ i > 1
           /\ IsAsciiLetter(s[i - 1])
           /\ \E j \in (i + 1)..Len(s) : IsAsciiLetter(s[j])}

SingleSpaced(s) ==
    [k \in 1..Cardinality(KeptPositions(s)) |->
        IF IsAsciiLetter(s[Kth(KeptPositions(s), k)])
        THEN s[Kth(KeptPositions(s), k)] ELSE " "]

\* C8: tokenize gives the maximal runs of ASCII letters in order, every
\* other character being dropped; glue of these tokens is a str holding
\* them separated by exactly one blank with no blank at either end, and is
\* the empty str (not an exception) when the text holds no ASCII letter.
C8_TokenizeThenGlue ==
    /\ (op = "__tokenize" => out = List(RunsInOrder(text.v)))
    /\ (op = "__glue" =>
          /\ IsStr(out)
          /\ out.v = SingleSpaced(text.v)
          /\ ((\A i \in 1..Len(text.v) : ~IsAsciiLetter(text.v[i]))
                => out.v = <<>>))

C8_Witness ==
    /\ op = "__glue"
    /\ text.v = <<"1", "n", "é", "Z">>
    /\ out = Str(<<"n", " ", "Z">>)

\* s without its newline characters and its backslash-n pairs
RECURSIVE WithoutNewLinesFrom(_, _)
WithoutNewLinesFrom(s, i) ==
    IF i > Len(s) THEN <<>>
    ELSE IF s[i] = "\n" THEN WithoutNewLinesFrom(s, i + 1)
    ELSE IF LitAt(<<"\\", "n">>, s, i) THEN WithoutNewLinesFrom(s, i + 2)
    ELSE <<s[i]>> \o WithoutNewLinesFrom(s, i + 1)

\* C10: remove_new_lines returns the text with every backslash-n pair and
\* every newline character deleted, nothing put in their place and the
\* other characters kept in order.
C10_NewLinesDeleted ==
    op = "remove_new_lines" => out = Str(WithoutNewLinesFrom(text.v, 1))


(***************************************************************************)
(* top2vec_runner.run: the entry assertion, the download of the embedding  *)
(* models, the loading of the documents, the construction of the model     *)
(* and the reduction of its topics.                                        *)
(***************************************************************************)
MaxTopics == 2    \* most topics the model finds or the caller asks for

EMBEDDING_MODELS ==
    <<"universal-sentence-encoder",
      "universal-sentence-encoder-multilingual",
      "universal-sentence-encoder-large",
      "universal-sentence-encoder-multilingual-large">>

VALID_EMBEDDING_MODELS == <<"doc2vec">> \o EMBEDDING_MODELS

\* the options the docstring of run lists for embedding_model
DocstringOptions ==
    {"doc2vec", "universal-sentence-encoder",
     "universal-sentence-encoder-large",
     "universal-sentence-encoder-multilingual",
     "universal-sentence-encoder-multilingual-large",
     "distiluse-base-multilingual-cased", "all-MiniLM-L6-v2",
     "paraphrase-multilingual-MiniLM-L12-v2"}

\* the values callers pass: the documented ones and one that is none of them
EmbeddingInputs == DocstringOptions \cup {"word2vec"}

\* num_topics: None or a number
NumTopicsInputs ==
    {[given |-> FALSE, n |-> 0]}
    \cup {[given |-> TRUE, n |-> k] : k \in 1..MaxTopics}

InitT2VRun ==
    /\ t2v = [pc |-> "idle", embedding_model |-> "", num_topics |-> [given |-> FALSE, n |-> 0],
              folder |-> FALSE, have |-> {}, k |-> 0, branch |-> "none",
              non_reduced |-> 0, final |-> 0, reduced |-> FALSE,
              error |-> "none"]
    /\ InitPrep
    /\ InitText

\* run is entered: the arguments, the state of the disk, the assertion
T2VRun ==
    /\ t2v.pc = "idle"
    /\ \E m \in EmbeddingInputs, nt \in NumTopicsInputs,
          have \in SUBSET ToSet(EMBEDDING_MODELS), folder \in BOOLEAN :
         /\ (~folder => have = {})
         /\ t2v' = [t2v EXCEPT
                      !.embedding_model = m,
                      !.num_topics = nt,
                      !.folder = folder,
                      !.have = have,
                      !.pc = IF m \in ToSet(VALID_EMBEDDING_MODELS)
                             THEN "download" ELSE "raised",
                      !.error = IF m \in ToSet(VALID_EMBEDDING_MODELS)
                                THEN "none" ELSE "AssertionError"]
    /\ UNCHANGED prepVars
    /\ UNCHANGED textVars

\* download_embedding_models up to its loop: the folder is made if missing
T2VMakeFolder ==
    /\ t2v.pc = "download"
    /\ t2v.k = 0
    /\ t2v' = [t2v EXCEPT !.folder = TRUE, !.k = 1]
    /\ UNCHANGED prepVars
    /\ UNCHANGED textVars

\* one round of the loop of download_embedding_models: a model whose folder
\* is missing is fetched and extracted; when the server does not answer 200
\* no archive is written and opening it raises
T2VDownload ==
    /\ t2v.pc = "download"
    /\ t2v.k \in 1..Len(EMBEDDING_MODELS)
    /\ \E status \in {200, 404} :
         IF EMBEDDING_MODELS[t2v.k] \in t2v.have
         THEN t2v' = [t2v EXCEPT
                        !.k = @ + 1,
                        !.pc = IF t2v.k = Len(EMBEDDING_MODELS)
                               THEN "load" ELSE "download"]
         ELSE IF status = 200
         THEN t2v' = [t2v EXCEPT
                        !.have = @ \cup {EMBEDDING_MODELS[t2v.k]},
                        !.k = @ + 1,
                        !.pc = IF t2v.k = Len(EMBEDDING_MODELS)
                               THEN "load" ELSE "download"]
         ELSE t2v' = [t2v EXCEPT !.pc = "raised",
                                 !.error = "FileNotFoundError"]
    /\ UNCHANGED prepVars
    /\ UNCHANGED textVars

\* documents = load_documents(dataset_dir, data_col)
T2VLoad ==
    /\ t2v.pc = "load"
    /\ t2v' = [t2v EXCEPT !.pc = "construct"]
    /\ UNCHANGED prepVars
    /\ UNCHANGED textVars

\* the Top2Vec object is built, with the pretrained model's path when the
\* name is one of EMBEDDING_MODELS and with the doc2vec speed otherwise; it
\* finds some number of topics
T2VConstruct ==
    /\ t2v.pc = "construct"
    /\ \E found \in 1..MaxTopics :
         t2v' = [t2v EXCEPT
                   !.branch = IF t2v.embedding_model \in ToSet(EMBEDDING_MODELS)
                              THEN "pretrained" ELSE "doc2vec",
                   !.non_reduced = found,
                   !.pc = "topics"]
    /\ UNCHANGED prepVars
    /\ UNCHANGED textVars

\* the topics are reduced when num_topics is given and smaller than the
\* number found; run returns
T2VReturn ==
    /\ t2v.pc = "topics"
    /\ t2v' = [t2v EXCEPT
                 !.reduced = t2v.num_topics.given
                             /\ t2v.non_reduced > t2v.num_topics.n,
                 !.final = IF t2v.num_topics.given
                              /\ t2v.non_reduced > t2v.num_topics.n
                           THEN t2v.num_topics.n ELSE t2v.non_reduced,
                 !.pc = "returned"]
    /\ UNCHANGED prepVars
    /\ UNCHANGED textVars

NextT2V ==
    \/ T2VRun
    \/ T2VMakeFolder
    \/ T2VDownload
    \/ T2VLoad
    \/ T2VConstruct
    \/ T2VReturn

SpecT2V == InitT2VRun /\ [][NextT2V]_vars

\* C9: run accepts every embedding_model its docstring lists: for each of
\* them the entry assertion holds, so the call is never ended by it.
C9_DocstringOptionsAccepted ==
    (t2v.pc # "idle" /\ t2v.embedding_model \in DocstringOptions) =>
        ~(t2v.pc = "raised" /\ t2v.error = "AssertionError")


(***************************************************************************)
(* The per-document execution step by step: run on one document, the       *)
(* worker that took it making one call of a reduce at a time; op is the    *)
(* function called last, text the value it was handed, out what it gave.   *)
(***************************************************************************)
MaxNames == 2     \* longest prep_functions list of a stepwise run

\* two texts and the empty text
InstanceDocs ==
    {Str(<<"A"," ","m","e","n">>), Str(<<"I","s"," ","2">>), Str(<<>>)}

\* every available name and a misspelt one
InstanceNames == Registry \cup {"lowercase_typo"}

RunOne ==
    /\ pc = "idle"
    /\ \E doc \in InstanceDocs, f \in SeqsUpTo(InstanceNames, MaxNames) :
           RunCall(List(<<doc>>), List(f))
    /\ UNCHANGED <<text, out, op, t2v>>

\* res of the running reduce: a_str before the first call, then what the
\* last call gave
Res == IF applied[1] = <<>> THEN data.v[1] ELSE out

\* one evaluation of the lambda: globals()[func](res)
LambdaCall(func, res) ==
    /\ op' = func
    /\ text' = res
    /\ out' = Call(func, res)
    /\ applied' = [applied EXCEPT ![1] = Append(@, func)]

\* the next iteration of the reduce over str_methods
InstanceStrReduce(w) ==
    /\ pc = "mapping"
    /\ worker[w] # 0
    /\ Len(applied[1]) < Len(str_funcs)
    /\ ~IsRaise(Res)
    /\ LambdaCall(str_funcs[Len(applied[1]) + 1], Res)
    /\ UNCHANGED <<pc, data, prep_functions, str_funcs, tokenized_funcs, pool,
                   taskqueue, worker, mapresult, attempts, finished, result,
                   error, stdout, t2v>>

\* the next iteration of the reduce over tokenized_methods, entered when
\* tokenized_methods is not empty
InstanceTokenizedReduce(w) ==
    /\ pc = "mapping"
    /\ worker[w] # 0
    /\ Len(applied[1]) >= Len(str_funcs)
    /\ tokenized_funcs # <<>>
    /\ Len(applied[1]) < Len(str_funcs) + Len(tokenized_funcs)
    /\ ~IsRaise(Res)
    /\ LambdaCall(tokenized_funcs[Len(applied[1]) - Len(str_funcs) + 1], Res)
    /\ UNCHANGED <<pc, data, prep_functions, str_funcs, tokenized_funcs, pool,
                   taskqueue, worker, mapresult, attempts, finished, result,
                   error, stdout, t2v>>

\* __instance_preprocess returns a_str, or a call has raised; the worker
\* reports its chunk, which holds the one document
InstanceReturn(w) ==
    /\ pc = "mapping"
    /\ worker[w] # 0
    /\ \/ IsRaise(Res)
       \/ Len(applied[1]) = Len(str_funcs) + Len(tokenized_funcs)
    /\ mapresult' = MapResultSet(mapresult, {1},
                                 [i \in {1} |-> [val |-> Res,
                                                 calls |-> applied[1]]])
    /\ attempts' = [attempts EXCEPT ![1] = @ + 1]
    /\ finished' = Append(finished, worker[w])
    /\ worker' = [worker EXCEPT ![w] = 0]
    /\ UNCHANGED <<pc, data, prep_functions, str_funcs, tokenized_funcs, pool,
                   taskqueue, applied, result, error, stdout, text, out, op,
                   t2v>>

NextInstance ==
    \/ RunOne
    \/ \E w \in Workers : WorkerTake(w)
    \/ \E w \in Workers : InstanceStrReduce(w)
    \/ \E w \in Workers : InstanceTokenizedReduce(w)
    \/ \E w \in Workers : InstanceReturn(w)
    \/ MapReturn

SpecInstance == Init /\ [][NextInstance]_vars

\* the registry functions that work on a string
StringDomain ==
    {"to_lowercase", "standardize_accented_chars", "remove_url",
     "expand_contractions", "remove_mentions", "remove_hashtags",
     "keep_only_alphabet", "remove_new_lines", "remove_extra_spaces",
     "remove_html_tags"}

\* the registry functions that work on a token sequence
TokenDomain ==
    {"remove_english_stop_words", "lemmatize", "lemmatize_verb",
     "lemmatize_noun", "lemmatize_adjective"}

\* C11: in a run on document strings with a non-empty list of names that
\* passes validation, every call made for the document is to a function of
\* one of the two domains or to tokenize or glue; a string-domain function
\* is handed a string and a token-domain function a token sequence; the
\* value run returns for the document is a string, never a token sequence.
C11_HandedValueOfDomain ==
    (/\ CalledWithNames
     /\ Listed \subseteq Registry
     /\ \A i \in 1..Len(data.v) : IsStr(data.v[i])) =>
        /\ op \in StringDomain \cup TokenDomain
                  \cup {"__tokenize", "__glue", "none"}
        /\ (op \in StringDomain => IsStr(text))
        /\ (op \in TokenDomain => IsList(text))
        /\ pc # "raised"
        /\ (pc = "returned" =>
               /\ IsList(result)
               /\ Len(result.v) = Len(data.v)
               /\ \A i \in 1..Len(result.v) : IsStr(result.v[i]))

\* a token-domain name listed before a string-domain one: the stop-word
\* filter has been handed the tokens of the lowercased text
C11_Witness ==
    /\ pc = "mapping"
    /\ prep_functions.v = <<"remove_english_stop_words", "to_lowercase">>
    /\ data.v = <<Str(<<"A"," ","m","e","n">>)>>
    /\ op = "remove_english_stop_words"
    /\ text = List(<<<<"a">>, <<"m","e","n">>>>)
    /\ IsList(out)

=============================================================================
